---------------------------- MODULE Spec2Model ----------------------------
(***************************************************************************)
(* AudioInputProvider / useAudioInputs                                     *)
(* (src/src/providers/DevicesProvider/AudioInputProvider.tsx).             *)
(*                                                                         *)
(* The provider caches the media engine's audio input list and the session *)
(* manager's selected device, and reconciles the selection when the list   *)
(* changes.  The model has one step per callback of the component: the     *)
(* first run of its effects (Mount), a change of the audioVideo handle, the *)
(* unmount, the resolution or rejection of every awaited promise, the      *)
(* delivery of a device change event to the registered observers and the   *)
(* delivery of a selection notification to the subscribed callback.        *)
(*                                                                         *)
(* A state update re-renders the component and re-runs the effects whose   *)
(* dependencies changed; that is taken as part of the step that made the   *)
(* update.  The first render and the first run of the effects are two      *)
(* steps: Init is the rendered, not yet mounted component.                 *)
(***************************************************************************)
EXTENDS Naturals, Sequences, FiniteSets

\* ------------------------------------------------------------ values

\* null / undefined.
Null == "null"

\* The sentinel the reconciliation selects when the device is gone.
None == "none"

DeviceIds == {"a", "b"}

Labels == {"Mic A", "Mic B"}

\* MediaDeviceInfo, as far as the provider reads it: device a under either
\* label (the same slot re-enumerated as another device), device b.
Device ==
  {[deviceId |-> "a", label |-> "Mic A"], [deviceId |-> "a", label |-> "Mic B"],
   [deviceId |-> "b", label |-> "Mic B"]}

\* Media engine handles (values of useAudioVideo() other than null).
Handles == {"av1", "av2"}

HandleValues == Handles \cup {Null}

\* Values of the selected device id: a device id, the sentinel or null.
SelValues == DeviceIds \cup {None, Null}

\* What the session manager may report: a device id with a label, or no
\* device (the sentinel, null) and then no label.  The label is read only by
\* OutdatedDevice, which is TRUE whatever the label when no device is selected.
ManagerSelections ==
  {[id |-> d.deviceId, label |-> d.label] : d \in Device}
    \cup [id : {None, Null}, label : {Null}]

\* The labels the manager may report once it has selected v.
LabelsOf(v) ==
  IF v \in DeviceIds THEN {d.label : d \in {e \in Device : e.deviceId = v}}
  ELSE {Null}

\* The number of inputs of the environment (device change events, handle
\* changes, selection changes made outside the provider, the unmount) in one behaviour.
MaxInputs == 2

\* Device lists the media engine reports: every device id at most once.
DeviceLists ==
  { l \in UNION { [1..n -> Device] : n \in 0..Cardinality(DeviceIds) } :
      \A i, j \in DOMAIN l : i # j => l[i].deviceId # l[j].deviceId }

\* --------------------------------------------------------------- state

VARIABLES
  phase,                     \* "rendered" | "mounted" | "unmounted"
  audioVideo,                \* useAudioVideo() as of the last render
  audioInputs,               \* useState: the cached device list
  selectedAudioInputDevice,  \* useState: the cached selected device id
  initialized,               \* useRef(false).current
  mmSelected,                \* meetingManager.selectedAudioInputDevice
  mmLabel,                   \* meetingManager.selectedAudioInputDeviceLabel
  subscribed,                \* the callback is subscribed on the manager
  notifications,             \* selection notifications not yet delivered
  lastNotified,              \* value of the last notification delivered
  scopes,                    \* the runs of the enumeration effect
  listObs,                   \* list observers registered on the handles
  reconObs,                  \* reconciliation observers registered
  recons,                    \* the invocations of the reconciliation observer
  calls,                     \* chooseAudioInputDevice / selectAudioInputDevice calls
  lastList,                  \* the list of the last change event delivered
  engineDeselectedBy,        \* the invocation whose deselect the engine last
                             \* obeyed with no selection made since, else 0
  inputs,                    \* inputs of the environment so far
  ctx,                       \* useAudioInputs: the context value read
  props,                     \* useAudioInputs: its argument
  additional,                \* getFormattedDropdownDeviceOptions(AUDIO_INPUT)
  ret                        \* useAudioInputs: what the call produced

providerVars ==
  << phase, audioVideo, audioInputs, selectedAudioInputDevice, initialized,
     mmSelected, mmLabel, subscribed, notifications, lastNotified, scopes,
     listObs, reconObs, recons, calls, lastList, engineDeselectedBy, inputs >>

readVars == << ctx, props, additional, ret >>

vars == << providerVars, readVars >>


\* ------------------------------------------------- pure parts of the code

\* A find that takes the first device whatever its id.
FindDevice_First(list, id) == IF list # << >> THEN 1 ELSE 0

\* newAudioInputs.find(device => device.deviceId === id): the index of the
\* first match, 0 when there is none (find returns undefined).
FindDevice(list, id) ==
  IF \E i \in DOMAIN list : list[i].deviceId = id
    THEN CHOOSE i \in DOMAIN list :
           /\ list[i].deviceId = id
           /\ \A j \in DOMAIN list : list[j].deviceId = id => i <= j
    ELSE 0

\* An outdated test that compares the id alone.
OutdatedDevice_IdOnly(d) == d.deviceId # mmSelected

\* An outdated test that takes every found device for stale.
OutdatedDevice_Always(d) == TRUE

\* existingDevice.label !== meetingManager.selectedAudioInputDeviceLabel
\*   || existingDevice.deviceId !== meetingManager.selectedAudioInputDevice
OutdatedDevice(d) ==
  \/ d.label # mmLabel
  \/ d.deviceId # mmSelected

\* A reconciliation observer without its gate.
InitializedGate_Open == TRUE

\* if (!initialized.current) return;
InitializedGate == initialized

\* initAudioInput without its liveness guard.
IsMounted_Unguarded(sc) == TRUE

\* if (isMounted) { ... } of initAudioInput, for the scope sc.
IsMounted(sc) == sc.isMounted

\* A callback that keeps the cached value.
SelectionCallback_Keep(updatedAudioInputDevice) == selectedAudioInputDevice

\* The callback of the selection subscription: the new cached value.
SelectionCallback(updatedAudioInputDevice) == updatedAudioInputDevice

\* The synchronous part of the reconciliation observer: where the handler
\* stops, or the promise it first awaits.
ReconcileStart(sel, list) ==
  IF ~InitializedGate
    THEN "returned"
    ELSE LET i == FindDevice(list, sel)
         IN  IF i # 0
               THEN IF OutdatedDevice(list[i]) THEN "awaitChoose" ELSE "returned"
               ELSE "awaitSelectNone"

\* The call the handler has issued when it first suspends at pc.
FirstCalls(pc, k) ==
  IF pc = "awaitChoose"
    THEN << [op |-> "chooseAudioInputDevice", arg |-> Null, recon |-> k] >>
    ELSE IF pc = "awaitSelectNone"
      THEN << [op |-> "selectAudioInputDevice", arg |-> None, recon |-> k] >>
      ELSE << >>

\* The device id handed to the reselect: existingDevice.deviceId.
ExistingDeviceId(sel, list) ==
  IF FindDevice(list, sel) # 0 THEN list[FindDevice(list, sel)].deviceId ELSE Null

\* ------------------------------------------------------------- effects

\* Effect 2, setup: a new scope of its own isMounted flag and observer;
\* initAudioInput returns at once without a handle, else it awaits the fetch.
EnumerationSetup(sc, av) ==
  Append(sc, [av |-> av, isMounted |-> TRUE,
              fetch |-> IF av = Null THEN "none" ELSE "pending"])

\* Effect 2, cleanup of the current scope: isMounted = false.
EnumerationCleanup(sc) ==
  IF Len(sc) = 0 THEN sc ELSE [sc EXCEPT ![Len(sc)].isMounted = FALSE]

\* Effect 2, cleanup: audioVideo?.removeDeviceChangeObserver(observer).
ListObsCleanup(lo, sc) ==
  IF Len(sc) = 0 \/ sc[Len(sc)].av = Null
    THEN lo
    ELSE lo \ {[av |-> sc[Len(sc)].av, scope |-> Len(sc)]}

\* Effect 3, setup: nothing without a handle, else addDeviceChangeObserver
\* of an observer that closes over the handle and the cached selection.
ReconSetup(ro, av, sel) ==
  IF av = Null THEN ro ELSE ro \cup {[av |-> av, sel |-> sel]}

\* A cleanup that leaves the observer registered.
ReconCleanup_Noop(ro, av, sel) == ro

\* Effect 3, cleanup: removeDeviceChangeObserver(observer), when set up.
ReconCleanup(ro, av, sel) ==
  IF av = Null THEN ro ELSE ro \ {[av |-> av, sel |-> sel]}

\* meetingManager publishes a selection to the subscribed callback.
Publish(v) ==
  IF subscribed THEN Append(notifications, v) ELSE notifications

\* ------------------------------------------------------------- actions

\* The first run of the three effects after the first render.
Mount ==
  /\ UNCHANGED << lastList, engineDeselectedBy >>
  /\ phase = "rendered"
  /\ phase' = "mounted"
  /\ subscribed' = TRUE
  /\ scopes' = EnumerationSetup(scopes, audioVideo)
  /\ reconObs' = ReconSetup(reconObs, audioVideo, selectedAudioInputDevice)
  /\ UNCHANGED << audioVideo, audioInputs, selectedAudioInputDevice,
                  initialized, mmSelected, mmLabel, notifications,
                  lastNotified, listObs, recons, calls, inputs, readVars >>

\* useAudioVideo() yields another handle (or null): effects 2 and 3 are
\* cleaned up and run again.
SetAudioVideo(h) ==
  /\ UNCHANGED << lastList, engineDeselectedBy >>
  /\ phase = "mounted"
  /\ inputs < MaxInputs
  /\ h # audioVideo
  /\ audioVideo' = h
  /\ inputs' = inputs + 1
  /\ scopes' = EnumerationSetup(EnumerationCleanup(scopes), h)
  /\ listObs' = ListObsCleanup(listObs, scopes)
  /\ reconObs' = ReconSetup(
                   ReconCleanup(reconObs, audioVideo, selectedAudioInputDevice),
                   h, selectedAudioInputDevice)
  /\ UNCHANGED << phase, audioInputs, selectedAudioInputDevice, initialized,
                  mmSelected, mmLabel, subscribed, notifications,
                  lastNotified, recons, calls, readVars >>

\* The provider is unmounted: the cleanups of the three effects.
Unmount ==
  /\ UNCHANGED << lastList, engineDeselectedBy >>
  /\ phase = "mounted"
  /\ inputs < MaxInputs
  /\ inputs' = inputs + 1
  /\ phase' = "unmounted"
  /\ subscribed' = FALSE
  /\ scopes' = EnumerationCleanup(scopes)
  /\ listObs' = ListObsCleanup(listObs, scopes)
  /\ reconObs' = ReconCleanup(reconObs, audioVideo, selectedAudioInputDevice)
  /\ UNCHANGED << audioVideo, audioInputs, selectedAudioInputDevice,
                  initialized, mmSelected, mmLabel, notifications,
                  lastNotified, recons, calls, readVars >>

\* await audioVideo.listAudioInputDevices() of scope i resolves.
FetchResolves(i, devices) ==
  /\ UNCHANGED << lastList, engineDeselectedBy >>
  /\ scopes[i].fetch = "pending"
  /\ scopes' = [scopes EXCEPT ![i].fetch = "done"]
  /\ IF IsMounted(scopes[i])
       THEN /\ audioInputs' = devices
            /\ listObs' = listObs \cup {[av |-> scopes[i].av, scope |-> i]}
            /\ initialized' = TRUE
       ELSE UNCHANGED << audioInputs, listObs, initialized >>
  /\ UNCHANGED << phase, audioVideo, selectedAudioInputDevice, mmSelected,
                  mmLabel, subscribed, notifications, lastNotified, reconObs,
                  recons, calls, inputs, readVars >>

\* An initAudioInput that catches the rejection and goes on with no devices.
FetchRejects_Swallow(i) ==
  /\ scopes[i].fetch = "pending"
  /\ scopes' = [scopes EXCEPT ![i].fetch = "failed"]
  /\ audioInputs' = << >>
  /\ listObs' = listObs \cup {[av |-> scopes[i].av, scope |-> i]}
  /\ initialized' = TRUE
  /\ UNCHANGED << phase, audioVideo, selectedAudioInputDevice, mmSelected,
                  mmLabel, subscribed, notifications, lastNotified, reconObs,
                  recons, calls, lastList, engineDeselectedBy, inputs,
                  readVars >>

\* await audioVideo.listAudioInputDevices() of scope i rejects: initAudioInput
\* ends with the rejection, which nothing catches.
FetchRejects(i) ==
  /\ UNCHANGED << lastList, engineDeselectedBy >>
  /\ scopes[i].fetch = "pending"
  /\ scopes' = [scopes EXCEPT ![i].fetch = "failed"]
  /\ UNCHANGED << phase, audioVideo, audioInputs, selectedAudioInputDevice,
                  initialized, mmSelected, mmLabel, subscribed, notifications,
                  lastNotified, listObs, reconObs, recons, calls, inputs,
                  readVars >>

\* The observers of handle h in the order they are invoked.
RECURSIVE SetToSeq(_)
SetToSeq(S) ==
  IF S = {} THEN << >>
  ELSE LET x == CHOOSE y \in S : TRUE IN << x >> \o SetToSeq(S \ {x})

\* One invocation of a reconciliation observer, as recorded: the handle and
\* selection it closed over, the device id it found, where it stands, and
\* the facts of the moment it was invoked: whether initialization had
\* completed, the run of the enumeration effect then current and whether
\* its list observer was registered (its fetch had resolved), the cached
\* selected id, whether the list held it, and whether that entry's label
\* and id were the ones the session manager reported, whether an earlier
\* invocation was suspended at an await; and, once its deselect has
\* resolved, whether its observer had been removed by then.
Invocation(o, list) ==
  [av |-> o.av, sel |-> o.sel,
   devId |-> ExistingDeviceId(o.sel, list),
   pc |-> ReconcileStart(o.sel, list),
   init |-> initialized,
   detached |-> FALSE,
   concurrent |-> \E j \in DOMAIN recons :
                    recons[j].pc \in {"awaitChoose", "awaitSelect",
                                      "awaitSelectNone"},
   scope |-> Len(scopes),
   loaded |-> \E lo \in listObs : lo.av = o.av,
   cached |-> selectedAudioInputDevice,
   inList |-> \E i \in DOMAIN list :
                list[i].deviceId = selectedAudioInputDevice,
   labelSame |-> \E i \in DOMAIN list :
                   /\ list[i].deviceId = selectedAudioInputDevice
                   /\ list[i].label = mmLabel,
   idSame |-> selectedAudioInputDevice = mmSelected]

RECURSIVE InvokeAll(_, _, _, _)
InvokeAll(obs, list, rs, cs) ==
  IF obs = << >> THEN << rs, cs >>
  ELSE LET r == Invocation(Head(obs), list)
       IN  InvokeAll(Tail(obs), list, Append(rs, r),
                     cs \o FirstCalls(r.pc, Len(rs) + 1))

\* Handle h reports audioInputsChanged(list) to the observers registered on
\* it: the list observers store the list, the reconciliation observers run
\* up to their first await.
AudioInputsChanged(h, list) ==
  /\ inputs < MaxInputs
  /\ \/ \E o \in listObs : o.av = h
     \/ \E o \in reconObs : o.av = h
  /\ inputs' = inputs + 1
  /\ audioInputs' = IF \E o \in listObs : o.av = h THEN list ELSE audioInputs
  /\ lastList' = list
  /\ UNCHANGED engineDeselectedBy
  /\ LET res == InvokeAll(SetToSeq({o \in reconObs : o.av = h}), list,
                          recons, calls)
     IN  /\ recons' = res[1]
         /\ calls' = res[2]
  /\ UNCHANGED << phase, audioVideo, selectedAudioInputDevice, initialized,
                  mmSelected, mmLabel, subscribed, notifications,
                  lastNotified, scopes, listObs, reconObs, readVars >>

\* Whether the observer that invocation k ran in is no longer registered.
Detached(k) ==
  [av |-> recons[k].av, sel |-> recons[k].sel] \notin reconObs

\* A handler that gives up after the deselect when its observer is gone.
ChooseResolves_Cancelled(k) ==
  /\ recons[k].pc = "awaitChoose"
  /\ recons' = [recons EXCEPT ![k].pc =
                  IF Detached(k) THEN "done" ELSE "awaitSelect",
                                ![k].detached = Detached(k)]
  /\ engineDeselectedBy' = k
  /\ calls' = IF Detached(k) THEN calls
              ELSE Append(calls, [op |-> "selectAudioInputDevice",
                                  arg |-> recons[k].devId, recon |-> k])
  /\ UNCHANGED << phase, audioVideo, audioInputs, selectedAudioInputDevice,
                  initialized, mmSelected, mmLabel, subscribed, notifications,
                  lastNotified, scopes, listObs, reconObs, lastList, inputs,
                  readVars >>

\* await audioVideo.chooseAudioInputDevice(null) of invocation k resolves:
\* the handler goes on to meetingManager.selectAudioInputDevice(deviceId).
ChooseResolves(k) ==
  /\ recons[k].pc = "awaitChoose"
  /\ recons' = [recons EXCEPT ![k].pc = "awaitSelect",
                              ![k].detached = Detached(k)]
  /\ engineDeselectedBy' = k
  /\ UNCHANGED lastList
  /\ calls' = Append(calls, [op |-> "selectAudioInputDevice",
                             arg |-> recons[k].devId, recon |-> k])
  /\ UNCHANGED << phase, audioVideo, audioInputs, selectedAudioInputDevice,
                  initialized, mmSelected, mmLabel, subscribed, notifications,
                  lastNotified, scopes, listObs, reconObs, inputs, readVars >>

\* A handler that catches the rejection and goes on to the reselect.
ChooseRejects_Continue(k) ==
  /\ recons[k].pc = "awaitChoose"
  /\ recons' = [recons EXCEPT ![k].pc = "chooseFailed"]
  /\ calls' = Append(calls, [op |-> "selectAudioInputDevice",
                             arg |-> recons[k].devId, recon |-> k])
  /\ UNCHANGED << phase, audioVideo, audioInputs, selectedAudioInputDevice,
                  initialized, mmSelected, mmLabel, subscribed, notifications,
                  lastNotified, scopes, listObs, reconObs, lastList,
                  engineDeselectedBy, inputs, readVars >>

\* await audioVideo.chooseAudioInputDevice(null) rejects: the handler ends.
ChooseRejects(k) ==
  /\ UNCHANGED << lastList, engineDeselectedBy >>
  /\ recons[k].pc = "awaitChoose"
  /\ recons' = [recons EXCEPT ![k].pc = "chooseFailed"]
  /\ UNCHANGED << phase, audioVideo, audioInputs, selectedAudioInputDevice,
                  initialized, mmSelected, mmLabel, subscribed, notifications,
                  lastNotified, scopes, listObs, reconObs, calls, inputs,
                  readVars >>

\* The device id the pending select of invocation k was called with.
SelectArg(k) ==
  IF recons[k].pc = "awaitSelectNone" THEN None ELSE recons[k].devId

\* await meetingManager.selectAudioInputDevice(..) of invocation k resolves:
\* the manager has made the selection (the engine has the device it was
\* told to choose), reports label l for it and publishes.
SelectResolves(k, l) ==
  /\ recons[k].pc \in {"awaitSelect", "awaitSelectNone"}
  /\ l \in LabelsOf(SelectArg(k))
  /\ recons' = [recons EXCEPT ![k].pc = "done"]
  /\ mmSelected' = SelectArg(k)
  /\ mmLabel' = l
  /\ engineDeselectedBy' = 0
  /\ UNCHANGED lastList
  /\ notifications' = Publish(SelectArg(k))
  /\ UNCHANGED << phase, audioVideo, audioInputs, selectedAudioInputDevice,
                  initialized, subscribed, lastNotified, scopes, listObs,
                  reconObs, calls, inputs, readVars >>

\* await meetingManager.selectAudioInputDevice(..) rejects: the handler ends.
SelectRejects(k) ==
  /\ UNCHANGED << lastList, engineDeselectedBy >>
  /\ recons[k].pc \in {"awaitSelect", "awaitSelectNone"}
  /\ recons' = [recons EXCEPT ![k].pc = "selectFailed"]
  /\ UNCHANGED << phase, audioVideo, audioInputs, selectedAudioInputDevice,
                  initialized, mmSelected, mmLabel, subscribed, notifications,
                  lastNotified, scopes, listObs, reconObs, calls, inputs,
                  readVars >>

\* The selection is changed on the session manager by someone else (the
\* user picks a device): the manager publishes it.
ManagerSelectionChanges(v, l) ==
  /\ inputs < MaxInputs
  /\ inputs' = inputs + 1
  /\ mmSelected' = v
  /\ mmLabel' = l
  /\ engineDeselectedBy' = 0
  /\ UNCHANGED lastList
  /\ notifications' = Publish(v)
  /\ UNCHANGED << phase, audioVideo, audioInputs, selectedAudioInputDevice,
                  initialized, subscribed, lastNotified, scopes, listObs,
                  reconObs, recons, calls, readVars >>

\* The oldest undelivered notification reaches the callback, which replaces
\* the cached selection; effect 3 runs again when the value changed.
DeliverNotification ==
  /\ UNCHANGED << lastList, engineDeselectedBy >>
  /\ notifications # << >>
  /\ notifications' = Tail(notifications)
  /\ IF subscribed
       THEN LET v == SelectionCallback(Head(notifications))
            IN  /\ selectedAudioInputDevice' = v
                /\ lastNotified' = Head(notifications)
                /\ reconObs' =
                     IF v = selectedAudioInputDevice
                       THEN reconObs
                       ELSE ReconSetup(
                              ReconCleanup(reconObs, audioVideo,
                                           selectedAudioInputDevice),
                              audioVideo, v)
       ELSE UNCHANGED << selectedAudioInputDevice, lastNotified, reconObs >>
  /\ UNCHANGED << phase, audioVideo, audioInputs, initialized, mmSelected,
                  mmLabel, subscribed, scopes, listObs, recons, calls, inputs,
                  readVars >>

\* ------------------------------------------------------- useAudioInputs

\* DeviceConfig arguments: none, or an object whose additionalDevices is
\* true, false or missing.
PropsValues ==
  [defined : BOOLEAN, additionalDevices : {"true", "false", "undefined"}]

\* The pseudo-devices configured for audio input.
PseudoDevices ==
  << [deviceId |-> "none", label |-> "None"],
     [deviceId |-> "440", label |-> "440 Hz"] >>

\* What getFormattedDropdownDeviceOptions(AUDIO_INPUT) may return: null or
\* a list of configured pseudo-devices.
AdditionalOptions ==
  {[isNull |-> TRUE, devices |-> << >>]} \cup
  {[isNull |-> FALSE, devices |-> SubSeq(PseudoDevices, 1, n)] :
     n \in 0..Len(PseudoDevices)}

\* Context values: none outside the provider, else what the provider holds.
ContextValues ==
  {[present |-> FALSE, devices |-> << >>, selectedDevice |-> Null]} \cup
  [present : {TRUE}, devices : DeviceLists, selectedDevice : SelValues]

\* The value the provider hands to Context.Provider.
ContextValue ==
  [present |-> TRUE, devices |-> audioInputs,
   selectedDevice |-> selectedAudioInputDevice]

\* const needAdditionalIO = props && props.additionalDevices
NeedAdditionalIO(p) == p.defined /\ p.additionalDevices = "true"

\* A read-model without the required-context check.
ContextMissing_Never(c) == FALSE

\* if (!context) throw new Error(..)
ContextMissing(c) == ~c.present

\* A merge that puts the additional devices first.
MergeDevices_Prepend(devices, extra) == extra \o devices

\* devices = [...devices, ...additionalAudioInputs]
MergeDevices(devices, extra) == devices \o extra

\* useAudioInputs(props) with context c and configured devices add.
UseAudioInputs(p, c, add) ==
  IF ContextMissing(c)
    THEN [threw |-> TRUE, returned |-> FALSE, devices |-> << >>,
          selectedDevice |-> Null]
    ELSE [threw |-> FALSE, returned |-> TRUE,
          devices |-> IF NeedAdditionalIO(p) /\ ~add.isNull
                        THEN MergeDevices(c.devices, add.devices)
                        ELSE c.devices,
          selectedDevice |-> c.selectedDevice]

NotCalled ==
  [threw |-> FALSE, returned |-> FALSE, devices |-> << >>,
   selectedDevice |-> Null]

\* A consumer calls useAudioInputs(props).
Read ==
  /\ ret = NotCalled
  /\ ret' = UseAudioInputs(props, ctx, additional)
  /\ UNCHANGED << ctx, props, additional, providerVars >>

\* -------------------------------------------------------- specifications

InitProvider ==
  /\ phase = "rendered"
  /\ audioVideo \in {Null, "av1"}
  /\ audioInputs = << >>
  /\ \E m \in ManagerSelections : mmSelected = m.id /\ mmLabel = m.label
  /\ selectedAudioInputDevice = mmSelected
  /\ initialized = FALSE
  /\ subscribed = FALSE
  /\ notifications = << >>
  /\ lastNotified = "never"
  /\ scopes = << >>
  /\ listObs = {}
  /\ reconObs = {}
  /\ recons = << >>
  /\ calls = << >>
  /\ lastList = << >>
  /\ engineDeselectedBy = 0
  /\ inputs = 0

Init ==
  /\ InitProvider
  /\ ctx = [present |-> FALSE, devices |-> << >>, selectedDevice |-> Null]
  /\ props = [defined |-> FALSE, additionalDevices |-> "undefined"]
  /\ additional = [isNull |-> TRUE, devices |-> << >>]
  /\ ret = NotCalled

Next ==
  \/ Mount
  \/ \E h \in HandleValues : SetAudioVideo(h)
  \/ Unmount
  \/ \E i \in DOMAIN scopes : \E devices \in DeviceLists : FetchResolves(i, devices)
  \/ \E i \in DOMAIN scopes : FetchRejects(i)
  \/ \E h \in Handles : \E list \in DeviceLists : AudioInputsChanged(h, list)
  \/ \E k \in DOMAIN recons : ChooseResolves(k)
  \/ \E k \in DOMAIN recons : ChooseRejects(k)
  \/ \E k \in DOMAIN recons : \E l \in Labels \cup {Null} : SelectResolves(k, l)
  \/ \E k \in DOMAIN recons : SelectRejects(k)
  \/ \E m \in ManagerSelections : ManagerSelectionChanges(m.id, m.label)
  \/ DeliverNotification

Spec == Init /\ [][Next]_vars

\* useAudioInputs on its own: every context, argument and configuration.
InitRead ==
  /\ phase = "rendered"
  /\ audioVideo = Null
  /\ audioInputs = << >>
  /\ mmSelected = Null
  /\ mmLabel = Null
  /\ selectedAudioInputDevice = Null
  /\ initialized = FALSE
  /\ subscribed = FALSE
  /\ notifications = << >>
  /\ lastNotified = "never"
  /\ scopes = << >>
  /\ listObs = {}
  /\ reconObs = {}
  /\ recons = << >>
  /\ calls = << >>
  /\ lastList = << >>
  /\ engineDeselectedBy = 0
  /\ inputs = 0
  /\ ctx \in ContextValues
  /\ props \in PropsValues
  /\ additional \in AdditionalOptions
  /\ ret = NotCalled

NextRead == Read

SpecRead == InitRead /\ [][NextRead]_vars


\* --------------------------------------------------------------- claims

\* The calls invocation k of the reconciliation observer has issued, in order.
CallsOf(k) ==
  LET OfK(c) == c.recon = k
      cs == SelectSeq(calls, OfK)
  IN  [i \in DOMAIN cs |-> << cs[i].op, cs[i].arg >>]

Deselect == << "chooseAudioInputDevice", Null >>

Select(id) == << "selectAudioInputDevice", id >>

\* C1: when the enumeration fetch of a scope that was torn down while the
\* fetch was outstanding resolves, the cached device list, the initialized
\* flag and the registered list observers are what they were.
C1_TornDownFetchMutatesNothing ==
  [][\A i \in DOMAIN scopes :
       ( /\ scopes[i].fetch = "pending"
         /\ ~scopes[i].isMounted
         /\ scopes'[i].fetch = "done" )
       => /\ audioInputs' = audioInputs
          /\ initialized' = initialized
          /\ listObs' = listObs]_vars

\* A fetch resolved after its scope was torn down, and nothing is
\* initialized or registered.
C1_Witness ==
  \E i \in DOMAIN scopes :
    /\ scopes[i].fetch = "done"
    /\ ~scopes[i].isMounted
    /\ ~initialized
    /\ audioInputs = << >>
    /\ listObs = {}

\* C2: an invocation of the reconciliation observer before initialization
\* completed returns at once and issues no call, whatever the list and the
\* cached selection.
C2_NoSideEffectBeforeInit ==
  \A k \in DOMAIN recons :
    ~recons[k].init => recons[k].pc = "returned" /\ CallsOf(k) = << >>

\* Two change events were delivered before initialization, one with the
\* cached selection in its list and one without, and no call was issued.
C2_Witness ==
  /\ ~initialized
  /\ calls = << >>
  /\ \E j, k \in DOMAIN recons :
       /\ ~recons[j].init /\ recons[j].inList
       /\ ~recons[k].init /\ ~recons[k].inList

\* Invocation k met a list that holds the cached selected id under a label
\* other than the one the session manager reported.
Stale(k) ==
  recons[k].init /\ recons[k].inList /\ ~recons[k].labelSame

\* C3 (as amended): a stale reconciliation issues chooseAudioInputDevice(null)
\* at once and nothing else while that call is outstanding or when it
\* rejects; from the moment it resolves its calls are the deselect followed
\* by selectAudioInputDevice(cached id), and never a select('none').
C3_StaleDeselectThenReselect ==
  \A k \in DOMAIN recons :
    Stale(k) =>
      CallsOf(k) = IF recons[k].pc \in {"awaitChoose", "chooseFailed"}
                     THEN << Deselect >>
                     ELSE << Deselect, Select(recons[k].cached) >>

\* A stale reconciliation that ran to its end: deselect, then reselect.
C3_Witness ==
  \E k \in DOMAIN recons :
    /\ Stale(k)
    /\ recons[k].idSame
    /\ recons[k].pc = "done"
    /\ CallsOf(k) = << Deselect, Select(recons[k].cached) >>

\* C3 (as stated): every stale reconciliation that has no call outstanding
\* has issued exactly the deselect followed by the reselect.
C3_AsStated ==
  \A k \in DOMAIN recons :
    (Stale(k) /\ recons[k].pc \notin {"awaitChoose", "awaitSelect"})
      => CallsOf(k) = << Deselect, Select(recons[k].cached) >>

\* C4: an initialized reconciliation whose list does not hold the cached
\* selected id (a device id, null or the sentinel) issues exactly one
\* selectAudioInputDevice('none') and no other call.
C4_GoneSelectsNone ==
  \A k \in DOMAIN recons :
    (recons[k].init /\ ~recons[k].inList)
      => /\ CallsOf(k) = << Select(None) >>
         /\ recons[k].pc \in {"awaitSelectNone", "done", "selectFailed"}

\* The cached selection was the sentinel itself, the list was not empty,
\* and select('none') was issued and resolved.
C4_Witness ==
  \E k \in DOMAIN recons :
    /\ recons[k].init /\ ~recons[k].inList
    /\ recons[k].cached = None
    /\ audioInputs # << >>
    /\ recons[k].pc = "done"
    /\ CallsOf(k) = << Select(None) >>

\* Invocation k met a list that holds the cached selected id under the
\* label and id the session manager reported.
Fresh(k) ==
  /\ recons[k].init /\ recons[k].inList
  /\ recons[k].labelSame /\ recons[k].idSame

\* C5: a reconciliation that finds the cached selected id with the label
\* and id the session manager reports returns without a call, and the
\* delivery of a change event leaves the manager's selection and label, the
\* cached selection and the pending notifications as they were.
C5_FreshNoSideEffect ==
  /\ [](\A k \in DOMAIN recons :
          Fresh(k) => recons[k].pc = "returned" /\ CallsOf(k) = << >>)
  /\ [][Len(recons') > Len(recons)
          => /\ mmSelected' = mmSelected
             /\ mmLabel' = mmLabel
             /\ selectedAudioInputDevice' = selectedAudioInputDevice
             /\ notifications' = notifications]_vars

\* The same unchanged device was delivered twice after initialization, and
\* nothing was called.
C5_Witness ==
  /\ Len(recons) = 2
  /\ Fresh(1) /\ Fresh(2)
  /\ calls = << >>
  /\ selectedAudioInputDevice = mmSelected

\* C6: the provider starts uninitialized, never goes back from initialized,
\* and becomes initialized only in a step in which the fetch of a mounted
\* scope resolves and the list observer of that scope is registered.
C6_InitializedOneWay ==
  /\ ~initialized
  /\ [][initialized => initialized']_vars
  /\ [][(~initialized /\ initialized')
          => \E i \in DOMAIN scopes :
               /\ scopes[i].fetch = "pending"
               /\ scopes[i].isMounted
               /\ scopes'[i].fetch = "done"
               /\ [av |-> scopes[i].av, scope |-> i] \in listObs']_vars

\* Still initialized after the handle was torn down and the provider
\* unmounted.
C6_Witness ==
  /\ initialized
  /\ phase = "unmounted"
  /\ Len(scopes) > 1

\* No reconciliation call is outstanding and no notification undelivered.
Quiescent ==
  /\ notifications = << >>
  /\ \A k \in DOMAIN recons :
       recons[k].pc \notin {"awaitChoose", "awaitSelect", "awaitSelectNone"}

\* C7: after initialization, whenever the provider is quiescent, the cached
\* selected id is null or the id of an entry of the cached device list.
C7_CachedSelectionInList ==
  (initialized /\ Quiescent)
    => \/ selectedAudioInputDevice = Null
       \/ \E i \in DOMAIN audioInputs :
            audioInputs[i].deviceId = selectedAudioInputDevice

\* C8: useAudioInputs returns the cached selection unchanged and, with
\* additional devices requested, the hardware list as a prefix in its order
\* followed by the configured devices; without the flag, the hardware list.
C8_AdditionalDevicesAppended ==
  ret.returned =>
    LET n == Len(ctx.devices)
        extra == IF props.defined /\ props.additionalDevices = "true"
                      /\ ~additional.isNull
                   THEN additional.devices ELSE << >>
    IN  /\ ret.selectedDevice = ctx.selectedDevice
        /\ Len(ret.devices) = n + Len(extra)
        /\ \A i \in 1..n : ret.devices[i] = ctx.devices[i]
        /\ \A i \in 1..Len(extra) : ret.devices[n + i] = extra[i]

\* Two hardware devices, two configured devices, the flag set.
C8_Witness ==
  /\ ret.returned
  /\ props.defined /\ props.additionalDevices = "true"
  /\ Len(ctx.devices) = 2
  /\ Len(ret.devices) = 4
  /\ ret.devices[3].deviceId = "none"

\* C9: a call of useAudioInputs without a context value throws and returns
\* nothing, with and without the flag; with a context value it returns.
C9_ThrowsOutsideProvider ==
  ret # NotCalled =>
    IF ctx.present
      THEN ret.returned /\ ~ret.threw
      ELSE /\ ret.threw /\ ~ret.returned
           /\ ret.devices = << >> /\ ret.selectedDevice = Null

\* The call threw although additional devices were requested.
C9_Witness ==
  /\ ret.threw
  /\ ~ctx.present
  /\ props.defined /\ props.additionalDevices = "true"

\* C10: the delivery of a notification to the subscribed callback sets the
\* cached selected id to the value it carries and leaves the device list
\* and the initialized flag alone; so while subscribed the cached id is
\* the value of the last notification delivered.
C10_CachedIsLastNotified ==
  /\ []((subscribed /\ lastNotified # "never")
          => selectedAudioInputDevice = lastNotified)
  /\ [][(subscribed /\ notifications # << >>
           /\ notifications' = Tail(notifications))
          => /\ selectedAudioInputDevice' = Head(notifications)
             /\ audioInputs' = audioInputs
             /\ initialized' = initialized]_vars

\* A notification was delivered, the same value is queued again.
C10_Witness ==
  /\ subscribed
  /\ lastNotified # "never"
  /\ notifications # << >>
  /\ Head(notifications) = lastNotified
  /\ selectedAudioInputDevice = lastNotified

\* C11: after initialization, with the provider mounted on a live handle, a
\* change event of that handle leaves the cached device list equal to the
\* list it delivered and the cached selected id as it was.
C11_ListReplacedByEvent ==
  [][( /\ Len(recons') > Len(recons)
       /\ initialized
       /\ phase = "mounted"
       /\ audioVideo # Null
       /\ recons'[Len(recons')].av = audioVideo )
      => /\ audioInputs' = lastList'
         /\ selectedAudioInputDevice' = selectedAudioInputDevice]_vars

\* C12: the step in which an enumeration fetch rejects changes neither the
\* cached list, the initialized flag, the list observers, the calls and
\* reconciliations nor any other run of the effect, and a failed fetch
\* stays failed: it is not issued again.
C12_FailedFetchChangesNothing ==
  /\ [][\A i \in DOMAIN scopes :
          (scopes[i].fetch = "pending" /\ scopes'[i].fetch = "failed")
          => /\ audioInputs' = audioInputs
             /\ initialized' = initialized
             /\ listObs' = listObs
             /\ calls' = calls
             /\ recons' = recons
             /\ Len(scopes') = Len(scopes)
             /\ \A j \in DOMAIN scopes : j # i => scopes'[j] = scopes[j]]_vars
  /\ [][\A i \in DOMAIN scopes :
          scopes[i].fetch = "failed" => scopes'[i].fetch = "failed"]_vars

\* The fetch of the mounted scope failed; a later change event found the
\* provider uninitialized and without list observer, and nothing was called.
C12_Witness ==
  \E i \in DOMAIN scopes :
    /\ scopes[i].fetch = "failed"
    /\ scopes[i].isMounted
    /\ ~initialized
    /\ audioInputs = << >>
    /\ listObs = {}
    /\ Len(recons) > 0
    /\ calls = << >>

\* C13: a reconciliation invoked on a handle that replaced an earlier one,
\* before the enumeration fetch issued for that handle has resolved, issues
\* no call.
C13_NoReconciliationBeforeReload ==
  \A k \in DOMAIN recons :
    (recons[k].scope > 1 /\ ~recons[k].loaded) => CallsOf(k) = << >>

\* C14: the step in which the deselect of an invocation resolves issues
\* selectAudioInputDevice(<device id>) for it, whatever has become of the
\* provider, the handle and the cached selection; and when nothing is
\* outstanding, the engine is left deselected by an invocation only when
\* the select call of that invocation was rejected.
C14_ReselectNotCancelled ==
  /\ [][\A k \in DOMAIN recons :
          (recons[k].pc = "awaitChoose"
             /\ recons'[k].pc \notin {"awaitChoose", "chooseFailed"})
          => /\ recons'[k].pc = "awaitSelect"
             /\ calls' = Append(calls, [op |-> "selectAudioInputDevice",
                                        arg |-> recons[k].devId,
                                        recon |-> k])]_vars
  /\ [](\A k \in DOMAIN recons :
          (Quiescent /\ engineDeselectedBy = k)
            => recons[k].pc = "selectFailed")

\* A reselect was issued although, when the deselect resolved, the observer
\* of the invocation was gone (unmount, handle or selection change).
C14_Witness ==
  \E k \in DOMAIN recons :
    /\ recons[k].detached
    /\ recons[k].pc \in {"awaitSelect", "done"}
    /\ CallsOf(k) = << Deselect, Select(recons[k].devId) >>

\* C14 as stated: when nothing is outstanding, no invocation whose deselect
\* succeeded has left the engine deselected.
C14_AsStated ==
  Quiescent => engineDeselectedBy = 0

\* C15: an invocation whose deselect failed has issued the deselect alone,
\* one whose select failed has issued that select once; no invocation has
\* issued more than one deselect and one select; a failed invocation never
\* moves again, and the failing step changes neither the cached list, the
\* cached selection, the initialized flag nor the calls.
C15_FailureStopsSequence ==
  /\ [](\A k \in DOMAIN recons :
          /\ CallsOf(k) \in {<< >>, << Deselect >>, << Select(None) >>,
                             << Deselect, Select(recons[k].devId) >>}
          /\ recons[k].pc = "chooseFailed" => CallsOf(k) = << Deselect >>
          /\ recons[k].pc = "selectFailed"
               => CallsOf(k) \in {<< Select(None) >>,
                                  << Deselect, Select(recons[k].devId) >>})
  /\ [][\A k \in DOMAIN recons :
          /\ recons[k].pc \in {"chooseFailed", "selectFailed"}
               => recons'[k] = recons[k]
          /\ (recons[k].pc # recons'[k].pc
                /\ recons'[k].pc \in {"chooseFailed", "selectFailed"})
               => /\ audioInputs' = audioInputs
                  /\ selectedAudioInputDevice' = selectedAudioInputDevice
                  /\ initialized' = initialized
                  /\ calls' = calls]_vars

\* One invocation ended at its failed deselect, another at its failed select.
C15_Witness ==
  /\ \E k \in DOMAIN recons :
       recons[k].pc = "chooseFailed" /\ CallsOf(k) = << Deselect >>
  /\ \E k \in DOMAIN recons :
       recons[k].pc = "selectFailed" /\ Len(CallsOf(k)) >= 1

\* The select calls in the order the session manager received them.
SelectCalls ==
  LET IsSelect(c) == c.op = "selectAudioInputDevice"
  IN  SelectSeq(calls, IsSelect)

\* C16: when a change event was delivered while an earlier invocation was
\* suspended, and every reconciliation call has completed, the last select
\* call targets 'none' or an id of the list delivered last.
C16_LastSelectMatchesLatestList ==
  ( /\ \E k \in DOMAIN recons : recons[k].concurrent
    /\ \A k \in DOMAIN recons :
         recons[k].pc \notin {"awaitChoose", "awaitSelect", "awaitSelectNone"}
    /\ SelectCalls # << >> )
    => LET last == SelectCalls[Len(SelectCalls)]
       IN  \/ last.arg = None
           \/ \E i \in DOMAIN lastList : lastList[i].deviceId = last.arg

\* C17: an invocation that has issued its reselect after a deselect was
\* invoked when the cached selected id, which it reselects, was the id the
\* session manager reported as selected.
C17_ReselectKeepsManagerDevice ==
  \A k \in DOMAIN recons :
    (Len(CallsOf(k)) = 2 /\ CallsOf(k)[2] = Select(recons[k].devId))
      => recons[k].idSame

\* C18: every handle carries at most one reconciliation observer and one
\* list observer; an observer is registered only on the current handle of
\* the mounted provider; after unmount none is registered and the selection
\* callback is unsubscribed; a step starts at most one reconciliation.
C18_ObserversRegisteredOnce ==
  /\ [](/\ \A h \in Handles :
             /\ Cardinality({o \in reconObs : o.av = h}) <= 1
             /\ Cardinality({o \in listObs : o.av = h}) <= 1
        /\ \A o \in reconObs : o.av = audioVideo /\ phase = "mounted"
        /\ \A o \in listObs : o.av = audioVideo /\ phase = "mounted"
        /\ phase = "unmounted"
             => ~subscribed /\ reconObs = {} /\ listObs = {})
  /\ [][Len(recons') <= Len(recons) + 1]_vars

\* The provider was unmounted with its fetch outstanding, after its
\* reconciliation observer had been invoked: nothing is registered.
C18_Witness ==
  /\ phase = "unmounted"
  /\ \E i \in DOMAIN scopes : scopes[i].fetch = "pending"
  /\ Len(recons) >= 1
  /\ ~subscribed
  /\ reconObs = {}
  /\ listObs = {}

\* C19: while the provider is mounted and no selection notification awaits
\* delivery, the cached selected id is the session manager's selected id.
C19_CachedIsManagerSelection ==
  (phase = "mounted" /\ notifications = << >>)
    => selectedAudioInputDevice = mmSelected

=============================================================================
